---- MODULE Spec2Model ----
(***************************************************************************)
(* A model of openmls-sled-storage: the key builder of src/src/helpers.rs  *)
(* and the SledStorage adapter of src/src/lib.rs.  Byte strings are        *)
(* sequences of numbers 0..255.  serde_json is modelled by what it writes  *)
(* and accepts for the three types the adapter uses it on: a number, a     *)
(* Vec<u8> (a JSON array of numbers) and a Vec<Vec<u8>> (an array of       *)
(* arrays).                                                                *)
(***************************************************************************)
EXTENDS Integers, Sequences, FiniteSets, TLC

(***************************************************************************)
(* ASCII codes serde_json writes and reads.                                *)
(***************************************************************************)
LBracket == 91
RBracket == 93
Comma == 44
Zero == 48
Space == 32
Tab == 9
LineFeed == 10
CarriageReturn == 13

Whitespace == {Space, Tab, LineFeed, CarriageReturn}

ByteMax == 255
U16Max == 65535

Digit(d) == Zero + d
IsDigit(b) == b >= Zero /\ b <= Zero + 9

(***************************************************************************)
(* serde_json::to_vec                                                      *)
(***************************************************************************)
\* a number: its decimal digits, no leading zero
RECURSIVE ToVecNum(_)
ToVecNum(n) ==
    IF n < 10 THEN <<Digit(n)>>
    ELSE ToVecNum(n \div 10) \o <<Digit(n % 10)>>

\* a Vec<u8>: "[" n "," n ... "]"
RECURSIVE ToVecItems(_, _)
ToVecItems(v, i) ==
    IF i > Len(v) THEN <<>>
    ELSE (IF i > 1 THEN <<Comma>> ELSE <<>>) \o ToVecNum(v[i]) \o ToVecItems(v, i + 1)

ToVecBytes(v) == <<LBracket>> \o ToVecItems(v, 1) \o <<RBracket>>

\* a Vec<Vec<u8>>: "[" vec "," vec ... "]"
RECURSIVE ToVecLists(_, _)
ToVecLists(l, i) ==
    IF i > Len(l) THEN <<>>
    ELSE (IF i > 1 THEN <<Comma>> ELSE <<>>) \o ToVecBytes(l[i]) \o ToVecLists(l, i + 1)

ToVecList(l) == <<LBracket>> \o ToVecLists(l, 1) \o <<RBracket>>

(***************************************************************************)
(* serde_json::from_slice.  A parse result is [ok, val, next]: next is the *)
(* position after the value.  Kinds: "num" (an integer up to max),         *)
(* "bytes" (Vec<u8>), "list" (Vec<Vec<u8>>).                               *)
(***************************************************************************)
ParseError == [ok |-> FALSE, val |-> <<>>, next |-> 0]

RECURSIVE SkipWhitespace(_, _)
SkipWhitespace(s, i) ==
    IF i <= Len(s) /\ s[i] \in Whitespace THEN SkipWhitespace(s, i + 1) ELSE i

\* digits from position i on; acc is the value read so far
RECURSIVE ParseDigits(_, _, _, _)
ParseDigits(s, i, acc, max) ==
    IF i <= Len(s) /\ IsDigit(s[i])
    THEN LET n == acc * 10 + (s[i] - Zero)
         IN IF n > max THEN ParseError ELSE ParseDigits(s, i + 1, n, max)
    ELSE [ok |-> TRUE, val |-> acc, next |-> i]

\* a JSON number read as an unsigned integer: "0", or a digit 1-9 and more digits
ParseNum(s, i, max) ==
    IF i > Len(s) \/ ~IsDigit(s[i]) THEN ParseError
    ELSE IF s[i] = Zero
         THEN IF i + 1 <= Len(s) /\ IsDigit(s[i + 1]) THEN ParseError
              ELSE [ok |-> TRUE, val |-> 0, next |-> i + 1]
         ELSE ParseDigits(s, i, 0, max)

ElemKind(kind) == IF kind = "list" THEN "bytes" ELSE "num"

RECURSIVE ParseValue(_, _, _)
RECURSIVE ParseElems(_, _, _, _)

\* the elements of an array after its "[" or after a ","; acc holds those read
ParseElems(s, i, kind, acc) ==
    LET e == ParseValue(s, SkipWhitespace(s, i), ElemKind(kind))
    IN IF ~e.ok THEN ParseError
       ELSE LET j == SkipWhitespace(s, e.next)
                elems == Append(acc, e.val)
            IN IF j > Len(s) THEN ParseError
               ELSE IF s[j] = Comma THEN ParseElems(s, j + 1, kind, elems)
               ELSE IF s[j] = RBracket THEN [ok |-> TRUE, val |-> elems, next |-> j + 1]
               ELSE ParseError

ParseValue(s, i, kind) ==
    IF kind = "num" THEN ParseNum(s, i, ByteMax)
    ELSE IF i > Len(s) \/ s[i] # LBracket THEN ParseError
    ELSE LET j == SkipWhitespace(s, i + 1)
         IN IF j <= Len(s) /\ s[j] = RBracket
            THEN [ok |-> TRUE, val |-> <<>>, next |-> j + 1]
            ELSE ParseElems(s, j, kind, <<>>)

\* from_slice: one value, then nothing but whitespace
FromSlice(s, kind) ==
    LET r == ParseValue(s, SkipWhitespace(s, 1), kind)
    IN IF r.ok /\ SkipWhitespace(s, r.next) > Len(s)
       THEN [ok |-> TRUE, val |-> r.val]
       ELSE [ok |-> FALSE, val |-> <<>>]

FromSliceBytes(s) == FromSlice(s, "bytes")
FromSliceList(s) == FromSlice(s, "list")
\* the stored entity type V of the model: a number 0..255
FromSliceEntity(s) == FromSlice(s, "num")

(***************************************************************************)
(* helpers.rs: the key builder                                             *)
(***************************************************************************)
\* u16::to_be_bytes
U16ToBeBytes(v) == <<(v \div 256) % 256, v % 256>>

\* the same bytes in the other order: the version written little-endian
BuildKeyFromVecLittleEndian(version, label, key) ==
    label \o key \o <<version % 256, (version \div 256) % 256>>

\* the version cut to its low byte before it is written
BuildKeyFromVecLowByte(version, label, key) ==
    label \o key \o <<0, version % 256>>

\* the key bytes put before the label
BuildKeyFromVecKeyFirst(version, label, key) ==
    key \o label \o U16ToBeBytes(version)

\* build_key_from_vec::<V>(label, key)
BuildKeyFromVec(version, label, key) ==
    LET key_out == label
        with_key == key_out \o key
    IN with_key \o U16ToBeBytes(version)

(***************************************************************************)
(* Bounds of the model                                                     *)
(***************************************************************************)
\* operations two callers begin in one behaviour
MaxOps == 2
\* operations a caller alone begins in one behaviour
MaxSeqOps == 4
\* operations a caller begins in one behaviour with crashes
MaxDurOps == 2
\* longest label and longest key handed to the key builder
MaxKeyLen == 2

(***************************************************************************)
(* lib.rs: the values of the adapter                                       *)
(***************************************************************************)
\* sled's name of the tree a Db dereferences to
DefaultTree == "__sled__default"
Trees == {DefaultTree, "t1"}
Keys == {"k1", "k2"}
Callers == {"c1", "c2"}
\* the (tree, key) pairs the callers address
Cells == {<<DefaultTree, "k1">>, <<"t1", "k1">>, <<"t1", "k2">>}

\* serde_json::to_vec of the entities 1 and 2, the entity 1 written with a
\* leading space, and bytes that are no entity
EntityOne == ToVecNum(1)
EntityTwo == ToVecNum(2)
EntityOneSpaced == <<Space>> \o ToVecNum(1)
NotAnEntity == <<LBracket>>
\* the values written and appended, and those asked to be removed
Values == {EntityOne, EntityTwo, NotAnEntity}
RemoveValues == Values \cup {EntityOneSpaced}

\* Option<IVec>, what Tree::get returns
None == [present |-> FALSE, bytes |-> <<>>]
Some(b) == [present |-> TRUE, bytes |-> b]

\* Result<_, SledStorageError>; an Option<V> is a sequence of at most one V
Ok(v) == [status |-> "Ok", value |-> v]
SledError == [status |-> "SledError", value |-> <<>>]
SerializationError == [status |-> "SerializationError", value |-> <<>>]
NoResult == [status |-> "none", value |-> <<>>]
OptNone == <<>>
OptSome(v) == <<v>>

NoCall == [op |-> "none", tree |-> DefaultTree, key |-> "k1", value |-> <<>>]

VARIABLES
    trees,      \* trees[t][k]: Option of the bytes stored at key k of tree t
    treeNames,  \* the trees the Db has opened (db.tree_names())
    pc,         \* pc[c]: the backend call caller c makes next, or "idle"
    call,       \* call[c]: the operation c runs or ran last, and its arguments
    got,        \* got[c]: what c's Tree::get (or Tree::remove) returned
    todo,       \* todo[c]: the trees delete_all_data has yet to clear
    result,     \* result[c]: what c's last operation returned
    left,       \* operations that may still begin
    solo,       \* history: no other caller has run since c's operation began
    hist,       \* history: what each key holds, told from the calls made
    prev,       \* history: prev[c] tells whether c's operation repeats its last
    disk,       \* what sled has on stable storage: the trees and their names;
                \* kept up (disk.on) where the stable copy is looked at
    kbLabel,    \* key builder: the label
    kbKey,      \* key builder: the key bytes
    kbBuilt     \* key builder: the (version, key_out) pairs built so far

storeVars == <<trees, treeNames, pc, call, got, todo, result, left, solo, hist, prev, disk>>
kbVars == <<kbLabel, kbKey, kbBuilt>>
vars == <<trees, treeNames, pc, call, got, todo, result, left, solo, hist, prev, disk,
          kbLabel, kbKey, kbBuilt>>

EmptyTree == [k \in Keys |-> None]

\* history of a key, kept beside the store to state what the calls made so far
\* should have left in it:
\*   "absent"   nothing stored; note: "never" written, "deleted" or "cleared"
\*   "appends"  data = the values appended, one call after the other, to the
\*              absent key
\*   "write"    data = <<the value last written>>; note: "over" when the write
\*              replaced an entry, else "fresh"
\*   "unknown"  anything else
NeverHist == [kind |-> "absent", data |-> <<>>, note |-> "never"]
UnknownHist == [kind |-> "unknown", data |-> <<>>, note |-> ""]

\* the history of a key after its entry is removed
RemovedHist(h, present, how) ==
    IF present THEN [kind |-> "absent", data |-> <<>>, note |-> how]
    ELSE IF h.kind = "absent" THEN h
    ELSE [kind |-> "absent", data |-> <<>>, note |-> "never"]

\* the history of a key after value is appended to the list read as list_bytes
AppendedHist(h, stored, list_bytes, value) ==
    IF h.kind \in {"absent", "appends"} /\ stored = list_bytes
    THEN [kind |-> "appends", data |-> Append(h.data, value), note |-> ""]
    ELSE UnknownHist

WrittenHist(stored, value) ==
    [kind |-> "write", data |-> <<value>>,
     note |-> IF stored.present THEN "over" ELSE "fresh"]

\* the stable copy of the store as it is now
OnDisk(on) == [on |-> on, trees |-> trees, names |-> treeNames]

\* sled::open on a fresh path: only the default tree, nothing stored
Opened(budget) ==
    /\ trees = [t \in Trees |-> EmptyTree]
    /\ treeNames = {DefaultTree}
    /\ pc = [c \in Callers |-> "idle"]
    /\ call = [c \in Callers |-> NoCall]
    /\ got = [c \in Callers |-> None]
    /\ todo = [c \in Callers |-> {}]
    /\ result = [c \in Callers |-> NoResult]
    /\ left = budget
    /\ solo = [c \in Callers |-> FALSE]
    /\ hist = [t \in Trees |-> [k \in Keys |-> NeverHist]]
    /\ prev = [c \in Callers |-> ""]

StoreInit(budget) ==
    /\ Opened(budget)
    /\ disk = OnDisk(FALSE)

KbIdle ==
    /\ kbLabel = <<>>
    /\ kbKey = <<>>
    /\ kbBuilt = {}

Init == StoreInit(MaxOps) /\ KbIdle

(***************************************************************************)
(* lib.rs: what each operation computes between its backend calls          *)
(***************************************************************************)
\* write: the bytes it inserts
WriteSerialized(value) == ToVecBytes(value)

\* append that puts the new element first
AppendUpdatedFront(list_bytes, value) ==
    LET parsed == IF list_bytes.present THEN FromSliceList(list_bytes.bytes)
                  ELSE [ok |-> TRUE, val |-> <<>>]
    IN IF ~parsed.ok THEN [ok |-> FALSE, bytes |-> <<>>]
       ELSE [ok |-> TRUE, bytes |-> ToVecList(<<value>> \o parsed.val)]

\* append: the list it inserts, from what get returned; a stored list that
\* does not decode is a SerializationError
AppendUpdated(list_bytes, value) ==
    LET parsed == IF list_bytes.present THEN FromSliceList(list_bytes.bytes)
                  ELSE [ok |-> TRUE, val |-> <<>>]
    IN IF ~parsed.ok THEN [ok |-> FALSE, bytes |-> <<>>]
       ELSE [ok |-> TRUE, bytes |-> ToVecList(Append(parsed.val, value))]

\* read that reports a missing entry as SledStorageError::None
ValueDoesNotExist == [status |-> "None", value |-> <<>>]
ReadValueNoneIsError(value) ==
    IF ~value.present THEN ValueDoesNotExist
    ELSE LET deserialized == FromSliceBytes(value.bytes)
         IN IF ~deserialized.ok THEN SerializationError
            ELSE LET entity == FromSliceEntity(deserialized.val)
                 IN IF ~entity.ok THEN SerializationError
                    ELSE Ok(OptSome(entity.val))

\* read: Ok(None) for no entry, else both layers decoded
ReadValue(value) ==
    IF ~value.present THEN Ok(OptNone)
    ELSE LET deserialized == FromSliceBytes(value.bytes)
         IN IF ~deserialized.ok THEN SerializationError
            ELSE LET entity == FromSliceEntity(deserialized.val)
                 IN IF ~entity.ok THEN SerializationError
                    ELSE Ok(OptSome(entity.val))

\* filter_map: the elements that do not decode are left out
RECURSIVE CollectEntitiesSkip(_, _)
CollectEntitiesSkip(value, i) ==
    IF i > Len(value) THEN [ok |-> TRUE, val |-> <<>>]
    ELSE LET entity == FromSliceEntity(value[i])
             tail == CollectEntitiesSkip(value, i + 1)
         IN IF ~entity.ok THEN tail
            ELSE [ok |-> TRUE, val |-> <<entity.val>> \o tail.val]

\* read_list: value.iter().map(from_slice).collect(): the first element that
\* does not decode fails the whole call
RECURSIVE CollectEntities(_, _)
CollectEntities(value, i) ==
    IF i > Len(value) THEN [ok |-> TRUE, val |-> <<>>]
    ELSE LET entity == FromSliceEntity(value[i])
             tail == CollectEntities(value, i + 1)
         IN IF ~entity.ok \/ ~tail.ok THEN [ok |-> FALSE, val |-> <<>>]
            ELSE [ok |-> TRUE, val |-> <<entity.val>> \o tail.val]

ReadListValue(list_bytes) ==
    LET value == IF list_bytes.present THEN FromSliceList(list_bytes.bytes)
                 ELSE [ok |-> TRUE, val |-> <<>>]
    IN IF ~value.ok THEN SerializationError
       ELSE LET entities == CollectEntities(value.val, 1)
            IN IF ~entities.ok THEN SerializationError ELSE Ok(entities.val)

\* rposition: the last match instead of the first
RECURSIVE PositionLast(_, _, _)
PositionLast(parsed_list, value, i) ==
    IF i > Len(parsed_list) THEN 0
    ELSE LET later == PositionLast(parsed_list, value, i + 1)
         IN IF later > 0 THEN later
            ELSE IF parsed_list[i] = value THEN i ELSE 0

\* iter().position(|stored_item| stored_item == &value): 0 for no match
RECURSIVE Position(_, _, _)
Position(parsed_list, value, i) ==
    IF i > Len(parsed_list) THEN 0
    ELSE IF parsed_list[i] = value THEN i
    ELSE Position(parsed_list, value, i + 1)

\* Vec::remove(pos)
RemoveAt(parsed_list, pos) ==
    [i \in 1..(Len(parsed_list) - 1) |->
        IF i < pos THEN parsed_list[i] ELSE parsed_list[i + 1]]

\* position of the first element that decodes to the entity value decodes to
RECURSIVE PositionDecoded(_, _, _)
PositionDecoded(parsed_list, value, i) ==
    IF i > Len(parsed_list) THEN 0
    ELSE IF FromSliceEntity(parsed_list[i]) = FromSliceEntity(value) THEN i
    ELSE PositionDecoded(parsed_list, value, i + 1)

\* remove_item that compares the decoded entities, not the bytes
RemoveItemUpdatedDecoded(list, value) ==
    LET parsed == FromSliceList(list)
    IN IF ~parsed.ok THEN [ok |-> FALSE, bytes |-> <<>>]
       ELSE LET pos == PositionDecoded(parsed.val, value, 1)
                parsed_list == IF pos > 0 THEN RemoveAt(parsed.val, pos)
                               ELSE parsed.val
            IN [ok |-> TRUE, bytes |-> ToVecList(parsed_list)]

\* remove_item: the list it inserts, from the bytes get returned
RemoveItemUpdated(list, value) ==
    LET parsed == FromSliceList(list)
    IN IF ~parsed.ok THEN [ok |-> FALSE, bytes |-> <<>>]
       ELSE LET pos == Position(parsed.val, value, 1)
                parsed_list == IF pos > 0 THEN RemoveAt(parsed.val, pos)
                               ELSE parsed.val
            IN [ok |-> TRUE, bytes |-> ToVecList(parsed_list)]

(***************************************************************************)
(* lib.rs: the operations, one action per backend call.  Every call of     *)
(* sled (open_tree, get, insert, remove, clear, flush) either works or     *)
(* returns a sled::Error and changes nothing; the operation then returns   *)
(* SledError.                                                              *)
(***************************************************************************)
Cell(c) == trees[call[c].tree][call[c].key]

\* the entry changed through the Db, that is in its default tree, whatever the
\* tree opened
SetCellInDb(c, v) == [trees EXCEPT ![DefaultTree][call[c].key] = v]

\* an insert or remove that leaves the tree with the entry of c's key alone
SetCellAlone(c, v) ==
    [trees EXCEPT ![call[c].tree] = [k \in Keys |-> IF k = call[c].key THEN v ELSE None]]

\* the entry of c's key in the tree c opened (active_tree) becomes v
SetCell(c, v) == [trees EXCEPT ![call[c].tree][call[c].key] = v]
HistOf(c) == hist[call[c].tree][call[c].key]
SetHist(c, h) == [hist EXCEPT ![call[c].tree][call[c].key] = h]
ClearedHist(tree) ==
    [k \in Keys |-> RemovedHist(hist[tree][k], trees[tree][k].present, "cleared")]

\* caller c takes a step: every other caller is no longer alone
Others(c, alone) == [d \in Callers |-> IF d = c THEN alone ELSE FALSE]

Return(c, r) ==
    /\ pc' = [pc EXCEPT ![c] = "idle"]
    /\ result' = [result EXCEPT ![c] = r]

Goto(c, next) ==
    /\ pc' = [pc EXCEPT ![c] = next]
    /\ UNCHANGED result

\* history: the remove_item(tree, key, value) that c begins comes right after
\* a remove_item of c with the same arguments that wrote its list back and
\* returned Ok, no other caller having run since that one began: "once" when
\* the list that one read held the value at most once, "dup" when more often,
\* "" when c's operation repeats none
Repeats(c, op, tree, key, value) ==
    IF /\ op = "remove_item"
       /\ call[c] = [op |-> op, tree |-> tree, key |-> key, value |-> value]
       /\ result[c].status = "Ok"
       /\ got[c].present
       /\ solo[c]
    THEN LET L == FromSliceList(got[c].bytes).val
             pos == Position(L, value, 1)
         IN IF pos > 0 /\ Position(RemoveAt(L, pos), value, 1) > 0 THEN "dup" ELSE "once"
    ELSE ""

\* the head of the operations, where only write and append create the tree
\* they name
BeginCreateOnWrite(c, op, tree, key, value, next) ==
    /\ pc[c] = "idle"
    /\ left > 0
    /\ left' = left - 1
    /\ call' = [call EXCEPT ![c] = [op |-> op, tree |-> tree, key |-> key, value |-> value]]
    /\ got' = [got EXCEPT ![c] = None]
    /\ todo' = [todo EXCEPT ![c] = {}]
    /\ solo' = Others(c, TRUE)
    /\ \E fail \in BOOLEAN :
        IF fail
        THEN /\ pc' = pc
             /\ result' = [result EXCEPT ![c] = SledError]
             /\ prev' = [prev EXCEPT ![c] = ""]
             /\ UNCHANGED treeNames
        ELSE /\ pc' = [pc EXCEPT ![c] = next]
             /\ result' = [result EXCEPT ![c] = NoResult]
             /\ prev' = [prev EXCEPT ![c] = Repeats(c, op, tree, key, value)]
             /\ treeNames' = IF op \in {"write", "append"} THEN treeNames \cup {tree}
                             ELSE treeNames
    /\ UNCHANGED <<trees, hist>>
    /\ UNCHANGED disk
    /\ UNCHANGED kbVars

\* the head of the six per-key operations: self.db.open_tree(tree)?
Begin(c, op, tree, key, value, next) ==
    /\ pc[c] = "idle"
    /\ left > 0
    /\ left' = left - 1
    /\ call' = [call EXCEPT ![c] = [op |-> op, tree |-> tree, key |-> key, value |-> value]]
    /\ got' = [got EXCEPT ![c] = None]
    /\ todo' = [todo EXCEPT ![c] = {}]
    /\ solo' = Others(c, TRUE)
    /\ \E fail \in BOOLEAN :
        IF fail
        THEN /\ pc' = pc
             /\ result' = [result EXCEPT ![c] = SledError]
             /\ prev' = [prev EXCEPT ![c] = ""]
             /\ UNCHANGED treeNames
        ELSE /\ pc' = [pc EXCEPT ![c] = next]
             /\ result' = [result EXCEPT ![c] = NoResult]
             /\ prev' = [prev EXCEPT ![c] = Repeats(c, op, tree, key, value)]
             /\ treeNames' = treeNames \cup {tree}
    /\ UNCHANGED <<trees, hist>>
    /\ UNCHANGED disk
    /\ UNCHANGED kbVars

\* write
WriteOpen(c, tree, key, value) == Begin(c, "write", tree, key, value, "write_insert")

\* write that leaves an entry already stored as it is
WriteInsertIfAbsent(c) ==
    /\ pc[c] = "write_insert"
    /\ \E fail \in BOOLEAN :
        IF fail
        THEN /\ Return(c, SledError)
             /\ UNCHANGED <<trees, hist>>
        ELSE /\ trees' = IF Cell(c).present THEN trees
                         ELSE SetCell(c, Some(WriteSerialized(call[c].value)))
             /\ hist' = SetHist(c, WrittenHist(Cell(c), call[c].value))
             /\ Return(c, Ok(<<>>))
    /\ solo' = Others(c, solo[c])
    /\ UNCHANGED <<treeNames, call, got, todo, left>>
    /\ UNCHANGED disk
    /\ UNCHANGED prev
    /\ UNCHANGED kbVars

WriteInsert(c) ==
    /\ pc[c] = "write_insert"
    /\ \E fail \in BOOLEAN :
        IF fail
        THEN /\ Return(c, SledError)
             /\ UNCHANGED <<trees, hist>>
        ELSE /\ trees' = SetCell(c, Some(WriteSerialized(call[c].value)))
             /\ hist' = SetHist(c, WrittenHist(Cell(c), call[c].value))
             /\ Return(c, Ok(<<>>))
    /\ solo' = Others(c, solo[c])
    /\ UNCHANGED <<treeNames, call, got, todo, left>>
    /\ UNCHANGED disk
    /\ UNCHANGED prev
    /\ UNCHANGED kbVars

\* append
AppendOpen(c, tree, key, value) == Begin(c, "append", tree, key, value, "append_get")

AppendGet(c) ==
    /\ pc[c] = "append_get"
    /\ \E fail \in BOOLEAN :
        IF fail
        THEN /\ Return(c, SledError)
             /\ UNCHANGED got
        ELSE /\ got' = [got EXCEPT ![c] = Cell(c)]
             /\ IF AppendUpdated(Cell(c), call[c].value).ok
                THEN Goto(c, "append_insert")
                ELSE Return(c, SerializationError)
    /\ solo' = Others(c, solo[c])
    /\ UNCHANGED <<trees, treeNames, call, todo, left, hist>>
    /\ UNCHANGED disk
    /\ UNCHANGED prev
    /\ UNCHANGED kbVars

\* append that adds its element to the list stored at the time of the insert
AppendInsertAtomic(c) ==
    /\ pc[c] = "append_insert"
    /\ \E fail \in BOOLEAN :
        IF fail \/ ~AppendUpdated(Cell(c), call[c].value).ok
        THEN /\ Return(c, SledError)
             /\ UNCHANGED <<trees, hist>>
        ELSE /\ trees' = SetCell(c, Some(AppendUpdated(Cell(c), call[c].value).bytes))
             /\ hist' = SetHist(c, AppendedHist(HistOf(c), Cell(c), got[c], call[c].value))
             /\ Return(c, Ok(<<>>))
    /\ solo' = Others(c, solo[c])
    /\ UNCHANGED <<treeNames, call, got, todo, left>>
    /\ UNCHANGED disk
    /\ UNCHANGED prev
    /\ UNCHANGED kbVars

AppendInsert(c) ==
    /\ pc[c] = "append_insert"
    /\ \E fail \in BOOLEAN :
        IF fail
        THEN /\ Return(c, SledError)
             /\ UNCHANGED <<trees, hist>>
        ELSE /\ trees' = SetCell(c, Some(AppendUpdated(got[c], call[c].value).bytes))
             /\ hist' = SetHist(c, AppendedHist(HistOf(c), Cell(c), got[c], call[c].value))
             /\ Return(c, Ok(<<>>))
    /\ solo' = Others(c, solo[c])
    /\ UNCHANGED <<treeNames, call, got, todo, left>>
    /\ UNCHANGED disk
    /\ UNCHANGED prev
    /\ UNCHANGED kbVars

\* read
ReadOpen(c, tree, key) == Begin(c, "read", tree, key, <<>>, "read_get")

ReadGet(c) ==
    /\ pc[c] = "read_get"
    /\ \E fail \in BOOLEAN :
        IF fail
        THEN /\ Return(c, SledError)
             /\ UNCHANGED got
        ELSE /\ got' = [got EXCEPT ![c] = Cell(c)]
             /\ Return(c, ReadValue(Cell(c)))
    /\ solo' = Others(c, solo[c])
    /\ UNCHANGED <<trees, treeNames, call, todo, left, hist>>
    /\ UNCHANGED disk
    /\ UNCHANGED prev
    /\ UNCHANGED kbVars

\* read_list
ReadListOpen(c, tree, key) == Begin(c, "read_list", tree, key, <<>>, "read_list_get")

ReadListGet(c) ==
    /\ pc[c] = "read_list_get"
    /\ \E fail \in BOOLEAN :
        IF fail
        THEN /\ Return(c, SledError)
             /\ UNCHANGED got
        ELSE /\ got' = [got EXCEPT ![c] = Cell(c)]
             /\ Return(c, ReadListValue(Cell(c)))
    /\ solo' = Others(c, solo[c])
    /\ UNCHANGED <<trees, treeNames, call, todo, left, hist>>
    /\ UNCHANGED disk
    /\ UNCHANGED prev
    /\ UNCHANGED kbVars

\* remove_item
RemoveItemOpen(c, tree, key, value) ==
    Begin(c, "remove_item", tree, key, value, "remove_item_get")

\* remove_item that takes a missing entry for an empty list and writes it back
RemoveItemGetOrEmpty(c) ==
    /\ pc[c] = "remove_item_get"
    /\ \E fail \in BOOLEAN :
        IF fail
        THEN /\ Return(c, SledError)
             /\ UNCHANGED got
        ELSE LET list == IF Cell(c).present THEN Cell(c) ELSE Some(ToVecList(<<>>))
             IN /\ got' = [got EXCEPT ![c] = list]
                /\ IF RemoveItemUpdated(list.bytes, call[c].value).ok
                   THEN Goto(c, "remove_item_insert")
                   ELSE Return(c, SerializationError)
    /\ solo' = Others(c, solo[c])
    /\ UNCHANGED <<trees, treeNames, call, todo, left, hist>>
    /\ UNCHANGED disk
    /\ UNCHANGED prev
    /\ UNCHANGED kbVars

\* remove_item that returns Ok without an insert when no element of the list
\* equals the value
RemoveItemGetSkipNoMatch(c) ==
    /\ pc[c] = "remove_item_get"
    /\ \E fail \in BOOLEAN :
        IF fail
        THEN /\ Return(c, SledError)
             /\ UNCHANGED got
        ELSE /\ got' = [got EXCEPT ![c] = Cell(c)]
             /\ IF ~Cell(c).present THEN Return(c, Ok(<<>>))
                ELSE IF ~RemoveItemUpdated(Cell(c).bytes, call[c].value).ok
                THEN Return(c, SerializationError)
                ELSE IF Position(FromSliceList(Cell(c).bytes).val, call[c].value, 1) = 0
                THEN Return(c, Ok(<<>>))
                ELSE Goto(c, "remove_item_insert")
    /\ solo' = Others(c, solo[c])
    /\ UNCHANGED <<trees, treeNames, call, todo, left, hist>>
    /\ UNCHANGED disk
    /\ UNCHANGED prev
    /\ UNCHANGED kbVars

RemoveItemGet(c) ==
    /\ pc[c] = "remove_item_get"
    /\ \E fail \in BOOLEAN :
        IF fail
        THEN /\ Return(c, SledError)
             /\ UNCHANGED got
        ELSE /\ got' = [got EXCEPT ![c] = Cell(c)]
             /\ IF ~Cell(c).present THEN Return(c, Ok(<<>>))
                ELSE IF RemoveItemUpdated(Cell(c).bytes, call[c].value).ok
                THEN Goto(c, "remove_item_insert")
                ELSE Return(c, SerializationError)
    /\ solo' = Others(c, solo[c])
    /\ UNCHANGED <<trees, treeNames, call, todo, left, hist>>
    /\ UNCHANGED disk
    /\ UNCHANGED prev
    /\ UNCHANGED kbVars

\* remove_item that removes the old entry before it inserts the new list: a
\* failed insert leaves the key without its list
RemoveItemInsertAfterRemove(c) ==
    /\ pc[c] = "remove_item_insert"
    /\ \E fail \in BOOLEAN :
        IF fail
        THEN /\ Return(c, SledError)
             /\ trees' = SetCell(c, None)
             /\ hist' = SetHist(c, UnknownHist)
        ELSE /\ trees' = SetCell(c, Some(RemoveItemUpdated(got[c].bytes, call[c].value).bytes))
             /\ hist' = SetHist(c, UnknownHist)
             /\ Return(c, Ok(<<>>))
    /\ solo' = Others(c, solo[c])
    /\ UNCHANGED <<treeNames, call, got, todo, left>>
    /\ UNCHANGED disk
    /\ UNCHANGED prev
    /\ UNCHANGED kbVars

RemoveItemInsert(c) ==
    /\ pc[c] = "remove_item_insert"
    /\ \E fail \in BOOLEAN :
        IF fail
        THEN /\ Return(c, SledError)
             /\ UNCHANGED <<trees, hist>>
        ELSE /\ trees' = SetCell(c, Some(RemoveItemUpdated(got[c].bytes, call[c].value).bytes))
             /\ hist' = SetHist(c, UnknownHist)
             /\ Return(c, Ok(<<>>))
    /\ solo' = Others(c, solo[c])
    /\ UNCHANGED <<treeNames, call, got, todo, left>>
    /\ UNCHANGED disk
    /\ UNCHANGED prev
    /\ UNCHANGED kbVars

\* delete
DeleteOpen(c, tree, key) == Begin(c, "delete", tree, key, <<>>, "delete_remove")

\* delete that removes an entry only when it decodes as a written value
DeleteRemoveIfValue(c) ==
    /\ pc[c] = "delete_remove"
    /\ \E fail \in BOOLEAN :
        IF fail
        THEN /\ Return(c, SledError)
             /\ UNCHANGED <<trees, hist, got>>
        ELSE /\ got' = [got EXCEPT ![c] = Cell(c)]
             /\ IF FromSliceBytes(Cell(c).bytes).ok
                THEN /\ trees' = SetCell(c, None)
                     /\ hist' = SetHist(c, RemovedHist(HistOf(c), Cell(c).present, "deleted"))
                ELSE UNCHANGED <<trees, hist>>
             /\ Return(c, Ok(<<>>))
    /\ solo' = Others(c, solo[c])
    /\ UNCHANGED <<treeNames, call, todo, left>>
    /\ UNCHANGED disk
    /\ UNCHANGED prev
    /\ UNCHANGED kbVars

DeleteRemove(c) ==
    /\ pc[c] = "delete_remove"
    /\ \E fail \in BOOLEAN :
        IF fail
        THEN /\ Return(c, SledError)
             /\ UNCHANGED <<trees, hist, got>>
        ELSE /\ got' = [got EXCEPT ![c] = Cell(c)]
             /\ trees' = SetCell(c, None)
             /\ hist' = SetHist(c, RemovedHist(HistOf(c), Cell(c).present, "deleted"))
             /\ Return(c, Ok(<<>>))
    /\ solo' = Others(c, solo[c])
    /\ UNCHANGED <<treeNames, call, todo, left>>
    /\ UNCHANGED disk
    /\ UNCHANGED prev
    /\ UNCHANGED kbVars

\* sled's Db::flush: every change made so far is on stable storage when it
\* returns Ok
Synced == IF disk.on THEN OnDisk(TRUE) ELSE disk

\* flush that returns before anything is written out
FlushUnsynced(c) ==
    /\ pc[c] = "idle"
    /\ left > 0
    /\ left' = left - 1
    /\ call' = [call EXCEPT ![c] = [NoCall EXCEPT !.op = "flush"]]
    /\ got' = [got EXCEPT ![c] = None]
    /\ todo' = [todo EXCEPT ![c] = {}]
    /\ \E fail \in BOOLEAN :
        result' = [result EXCEPT ![c] = IF fail THEN SledError ELSE Ok(<<>>)]
    /\ solo' = Others(c, TRUE)
    /\ UNCHANGED <<trees, treeNames, pc, hist>>
    /\ UNCHANGED disk
    /\ prev' = [prev EXCEPT ![c] = ""]
    /\ UNCHANGED kbVars

\* flush: self.db.flush()?; Ok(())
Flush(c) ==
    /\ pc[c] = "idle"
    /\ left > 0
    /\ left' = left - 1
    /\ call' = [call EXCEPT ![c] = [NoCall EXCEPT !.op = "flush"]]
    /\ got' = [got EXCEPT ![c] = None]
    /\ todo' = [todo EXCEPT ![c] = {}]
    /\ \E fail \in BOOLEAN :
        IF fail
        THEN /\ result' = [result EXCEPT ![c] = SledError]
             /\ UNCHANGED disk
        ELSE /\ result' = [result EXCEPT ![c] = Ok(<<>>)]
             /\ disk' = Synced
    /\ solo' = Others(c, TRUE)
    /\ UNCHANGED <<trees, treeNames, pc, hist>>
    /\ prev' = [prev EXCEPT ![c] = ""]
    /\ UNCHANGED kbVars

\* delete_all_data that skips the loop over the trees
DeleteAllNamesNone(c) ==
    /\ pc[c] = "idle"
    /\ left > 0
    /\ left' = left - 1
    /\ call' = [call EXCEPT ![c] = [NoCall EXCEPT !.op = "delete_all_data"]]
    /\ got' = [got EXCEPT ![c] = None]
    /\ todo' = [todo EXCEPT ![c] = {}]
    /\ pc' = [pc EXCEPT ![c] = "delete_all_trees"]
    /\ result' = [result EXCEPT ![c] = NoResult]
    /\ solo' = Others(c, TRUE)
    /\ UNCHANGED <<trees, treeNames, hist>>
    /\ UNCHANGED disk
    /\ prev' = [prev EXCEPT ![c] = ""]
    /\ UNCHANGED kbVars

\* delete_all_data: let trees = self.db.tree_names()
DeleteAllNames(c) ==
    /\ pc[c] = "idle"
    /\ left > 0
    /\ left' = left - 1
    /\ call' = [call EXCEPT ![c] = [NoCall EXCEPT !.op = "delete_all_data"]]
    /\ got' = [got EXCEPT ![c] = None]
    /\ todo' = [todo EXCEPT ![c] = treeNames]
    /\ pc' = [pc EXCEPT ![c] = "delete_all_trees"]
    /\ result' = [result EXCEPT ![c] = NoResult]
    /\ solo' = Others(c, TRUE)
    /\ UNCHANGED <<trees, treeNames, hist>>
    /\ UNCHANGED disk
    /\ prev' = [prev EXCEPT ![c] = ""]
    /\ UNCHANGED kbVars

\* a turn of the loop that goes on to the next tree when open_tree or clear
\* fails
DeleteAllTreeIgnoreError(c) ==
    /\ pc[c] = "delete_all_trees"
    /\ \E tree \in todo[c] : \E fail \in BOOLEAN :
        IF fail
        THEN /\ todo' = [todo EXCEPT ![c] = todo[c] \ {tree}]
             /\ UNCHANGED <<trees, hist, pc, result>>
        ELSE /\ trees' = [trees EXCEPT ![tree] = EmptyTree]
             /\ hist' = [hist EXCEPT ![tree] = ClearedHist(tree)]
             /\ todo' = [todo EXCEPT ![c] = todo[c] \ {tree}]
             /\ UNCHANGED <<pc, result>>
    /\ solo' = Others(c, solo[c])
    /\ UNCHANGED <<treeNames, call, got, left>>
    /\ UNCHANGED disk
    /\ UNCHANGED prev
    /\ UNCHANGED kbVars

\* every listed tree cleared in one step
DeleteAllTreeAtOnce(c) ==
    /\ pc[c] = "delete_all_trees"
    /\ todo[c] # {}
    /\ \E fail \in BOOLEAN :
        IF fail
        THEN /\ Return(c, SledError)
             /\ UNCHANGED <<trees, hist, todo>>
        ELSE /\ trees' = [t \in Trees |-> IF t \in todo[c] THEN EmptyTree ELSE trees[t]]
             /\ hist' = [t \in Trees |-> IF t \in todo[c] THEN ClearedHist(t) ELSE hist[t]]
             /\ todo' = [todo EXCEPT ![c] = {}]
             /\ UNCHANGED <<pc, result>>
    /\ solo' = Others(c, solo[c])
    /\ UNCHANGED <<treeNames, call, got, left>>
    /\ UNCHANGED disk
    /\ UNCHANGED prev
    /\ UNCHANGED kbVars

\* one turn of the loop: open_tree(&tree)?, tree_ref.clear()?; tree_names()
\* lists the trees in no particular order
DeleteAllTree(c) ==
    /\ pc[c] = "delete_all_trees"
    /\ \E tree \in todo[c] : \E fail \in BOOLEAN :
        IF fail
        THEN /\ Return(c, SledError)
             /\ UNCHANGED <<trees, hist, todo>>
        ELSE /\ trees' = [trees EXCEPT ![tree] = EmptyTree]
             /\ hist' = [hist EXCEPT ![tree] = ClearedHist(tree)]
             /\ todo' = [todo EXCEPT ![c] = todo[c] \ {tree}]
             /\ UNCHANGED <<pc, result>>
    /\ solo' = Others(c, solo[c])
    /\ UNCHANGED <<treeNames, call, got, left>>
    /\ UNCHANGED disk
    /\ UNCHANGED prev
    /\ UNCHANGED kbVars

\* after the loop: self.db.clear()? (the Db is its default tree)
DeleteAllClear(c) ==
    /\ pc[c] = "delete_all_trees"
    /\ todo[c] = {}
    /\ \E fail \in BOOLEAN :
        IF fail
        THEN /\ Return(c, SledError)
             /\ UNCHANGED <<trees, hist>>
        ELSE /\ trees' = [trees EXCEPT ![DefaultTree] = EmptyTree]
             /\ hist' = [hist EXCEPT ![DefaultTree] = ClearedHist(DefaultTree)]
             /\ Goto(c, "delete_all_flush")
    /\ solo' = Others(c, solo[c])
    /\ UNCHANGED <<treeNames, call, got, todo, left>>
    /\ UNCHANGED disk
    /\ UNCHANGED prev
    /\ UNCHANGED kbVars

\* self.flush()?; Ok(())
DeleteAllFlush(c) ==
    /\ pc[c] = "delete_all_flush"
    /\ \E fail \in BOOLEAN :
        IF fail
        THEN /\ Return(c, SledError)
             /\ UNCHANGED disk
        ELSE /\ Return(c, Ok(<<>>))
             /\ disk' = Synced
    /\ solo' = Others(c, solo[c])
    /\ UNCHANGED <<trees, treeNames, call, got, todo, left, hist>>
    /\ UNCHANGED prev
    /\ UNCHANGED kbVars

StoreNext(callers) ==
    \E c \in callers :
        \/ \E cell \in Cells, value \in Values : WriteOpen(c, cell[1], cell[2], value)
        \/ WriteInsert(c)
        \/ \E cell \in Cells, value \in Values : AppendOpen(c, cell[1], cell[2], value)
        \/ AppendGet(c)
        \/ AppendInsert(c)
        \/ \E cell \in Cells : ReadOpen(c, cell[1], cell[2])
        \/ ReadGet(c)
        \/ \E cell \in Cells : ReadListOpen(c, cell[1], cell[2])
        \/ ReadListGet(c)
        \/ \E cell \in Cells, value \in RemoveValues : RemoveItemOpen(c, cell[1], cell[2], value)
        \/ RemoveItemGet(c)
        \/ RemoveItemInsert(c)
        \/ \E cell \in Cells : DeleteOpen(c, cell[1], cell[2])
        \/ DeleteRemove(c)
        \/ Flush(c)
        \/ DeleteAllNames(c)
        \/ DeleteAllTree(c)
        \/ DeleteAllClear(c)
        \/ DeleteAllFlush(c)

\* two callers sharing one SledStorage
Next == StoreNext(Callers)

Spec == Init /\ [][Next]_vars

\* one caller alone, with more operations
SeqInit == StoreInit(MaxSeqOps) /\ KbIdle

SeqNext == StoreNext({"c1"})

SeqSpec == SeqInit /\ [][SeqNext]_vars

(***************************************************************************)
(* Two callers on a store opened from a path that already holds entries:   *)
(* the value 1 at key k1 of the default tree and the value 2 at key k1 of  *)
(* the tree t1, written and flushed before.                                *)
(***************************************************************************)
StoredBefore ==
    [t \in Trees |-> [k \in Keys |->
        IF k = "k1"
        THEN Some(WriteSerialized(IF t = DefaultTree THEN EntityOne ELSE EntityTwo))
        ELSE None]]

ResetInit ==
    /\ trees = StoredBefore
    /\ treeNames = Trees
    /\ pc = [c \in Callers |-> "idle"]
    /\ call = [c \in Callers |-> NoCall]
    /\ got = [c \in Callers |-> None]
    /\ todo = [c \in Callers |-> {}]
    /\ result = [c \in Callers |-> NoResult]
    /\ left = MaxOps
    /\ solo = [c \in Callers |-> FALSE]
    /\ hist = [t \in Trees |-> [k \in Keys |->
                    IF k = "k1"
                    THEN WrittenHist(None, IF t = DefaultTree THEN EntityOne ELSE EntityTwo)
                    ELSE NeverHist]]
    /\ prev = [c \in Callers |-> ""]
    /\ disk = OnDisk(TRUE)
    /\ KbIdle

ResetSpec == ResetInit /\ [][Next]_vars

(***************************************************************************)
(* Two callers that append to and remove from the lists of a store opened  *)
(* from a path that already holds two: [1] at key k1 of the default tree   *)
(* and [2] at key k1 of the tree t1, each appended before.                 *)
(***************************************************************************)
StoredLists ==
    [t \in Trees |-> [k \in Keys |->
        IF k = "k1"
        THEN Some(ToVecList(<<IF t = DefaultTree THEN EntityOne ELSE EntityTwo>>))
        ELSE None]]

ListInit ==
    /\ trees = StoredLists
    /\ treeNames = Trees
    /\ pc = [c \in Callers |-> "idle"]
    /\ call = [c \in Callers |-> NoCall]
    /\ got = [c \in Callers |-> None]
    /\ todo = [c \in Callers |-> {}]
    /\ result = [c \in Callers |-> NoResult]
    /\ left = MaxOps
    /\ solo = [c \in Callers |-> FALSE]
    /\ hist = [t \in Trees |-> [k \in Keys |->
                    IF k = "k1"
                    THEN AppendedHist(NeverHist, None, None,
                                      IF t = DefaultTree THEN EntityOne ELSE EntityTwo)
                    ELSE NeverHist]]
    /\ prev = [c \in Callers |-> ""]
    /\ disk = OnDisk(FALSE)
    /\ KbIdle

\* no other caller is in the middle of an operation on the key of the tree
Free(c, tree, key) ==
    \A d \in Callers \ {c} : pc[d] = "idle" \/ <<call[d].tree, call[d].key>> # <<tree, key>>

\* append and remove_item of two callers; with confined, a caller begins on a
\* key only while no other caller is at work on it
ListNext(confined) ==
    \E c \in Callers :
        \/ \E cell \in Cells, value \in Values :
                /\ confined => Free(c, cell[1], cell[2])
                /\ AppendOpen(c, cell[1], cell[2], value)
        \/ AppendGet(c)
        \/ AppendInsert(c)
        \/ \E cell \in Cells, value \in RemoveValues :
                /\ confined => Free(c, cell[1], cell[2])
                /\ RemoveItemOpen(c, cell[1], cell[2], value)
        \/ RemoveItemGet(c)
        \/ RemoveItemInsert(c)

\* the callers never at work on one key at one time
ConfinedNext == ListNext(TRUE)

ConfinedSpec == ListInit /\ [][ConfinedNext]_vars

\* the callers free to work on one key at one time
RaceNext == ListNext(FALSE)

RaceSpec == ListInit /\ [][RaceNext]_vars

(***************************************************************************)
(* Stable storage.  sled writes its log out in the background (sled::open  *)
(* with the default Config flushes every 500 ms) and on flush; after a     *)
(* crash, sled::open recovers what had been written out.                   *)
(***************************************************************************)
\* the background flush of sled
Sync ==
    /\ disk # Synced
    /\ disk' = Synced
    /\ UNCHANGED <<trees, treeNames, pc, call, got, todo, result, left, solo, hist, prev>>
    /\ UNCHANGED kbVars

\* the process dies, whatever its callers were doing, and starts again with
\* new_from_path on the same path; call[c].op tells whether c's last
\* operation before the crash was a flush that had returned Ok
Crash ==
    /\ trees' = disk.trees
    /\ treeNames' = disk.names
    /\ pc' = [c \in Callers |-> "idle"]
    /\ call' = [c \in Callers |->
                    [NoCall EXCEPT !.op =
                        IF pc[c] = "idle" /\ call[c].op = "flush" /\ result[c].status = "Ok"
                        THEN "reopen_flushed" ELSE "reopen"]]
    /\ got' = [c \in Callers |-> None]
    /\ todo' = [c \in Callers |-> {}]
    /\ result' = [c \in Callers |-> NoResult]
    /\ solo' = [c \in Callers |-> FALSE]
    /\ prev' = [c \in Callers |-> ""]
    /\ hist' = [t \in Trees |-> [k \in Keys |->
                    IF disk.trees[t][k] = trees[t][k] THEN hist[t][k] ELSE UnknownHist]]
    /\ UNCHANGED <<left, disk>>
    /\ UNCHANGED kbVars

\* one caller, the background flush and crashes
DurInit ==
    /\ Opened(MaxDurOps)
    /\ disk = OnDisk(TRUE)
    /\ KbIdle

DurNext ==
    \/ StoreNext({"c1"})
    \/ Sync
    \/ Crash

DurSpec == DurInit /\ [][DurNext]_vars

(***************************************************************************)
(* The key builder on its own: a label and key bytes are chosen, then keys *)
(* are built from them for one version after another.                      *)
(***************************************************************************)
\* bytes of labels and keys; 0, 1 and 255 also occur in the version suffix
SampleBytes == {0, 1, 255}
KeyVersions == {0, 1, 2, 256, 258, U16Max}

RECURSIVE ByteStrings(_)
ByteStrings(n) ==
    IF n = 0 THEN {<<>>}
    ELSE LET shorter == ByteStrings(n - 1)
         IN shorter \cup {Append(s, b) : s \in shorter, b \in SampleBytes}

KeyInit ==
    /\ StoreInit(0)
    /\ kbLabel \in ByteStrings(MaxKeyLen)
    /\ kbKey \in ByteStrings(MaxKeyLen)
    /\ kbBuilt = {}

\* a call build_key_from_vec::<version>(label, key)
BuildKey(version) ==
    /\ kbBuilt' = kbBuilt \cup
            {[version |-> version, key_out |-> BuildKeyFromVec(version, kbLabel, kbKey)]}
    /\ UNCHANGED <<kbLabel, kbKey>>
    /\ UNCHANGED storeVars

KeyNext == \E version \in KeyVersions : BuildKey(version)

KeySpec == KeyInit /\ [][KeyNext]_vars

(***************************************************************************)
(* The key builder called twice: each call has its own label, key bytes    *)
(* and version, and the inputs are kept beside the keys built from them.   *)
(***************************************************************************)
\* bytes of the labels and keys of a pair of calls
PairBytes == {0, 1}
PairVersions == {0, 1, 256}

RECURSIVE PairStrings(_)
PairStrings(n) ==
    IF n = 0 THEN {<<>>}
    ELSE LET shorter == PairStrings(n - 1)
         IN shorter \cup {Append(s, b) : s \in shorter, b \in PairBytes}

PairInit ==
    /\ StoreInit(0)
    /\ KbIdle

\* a call build_key_from_vec::<version>(label, key), the first or the second
BuildKeyOf(version, label, key) ==
    /\ kbLabel' = label
    /\ kbKey' = key
    /\ kbBuilt' = kbBuilt \cup
            {[version |-> version, label |-> label, key |-> key,
              key_out |-> BuildKeyFromVec(version, label, key)]}
    /\ UNCHANGED storeVars

\* two calls are made, with any inputs
PairNext ==
    /\ kbBuilt = {} \/ \E b \in kbBuilt : kbBuilt = {b}
    /\ \E version \in PairVersions :
           \E label \in PairStrings(MaxKeyLen), key \in PairStrings(MaxKeyLen) :
               BuildKeyOf(version, label, key)

PairSpec == PairInit /\ [][PairNext]_vars

(***************************************************************************)
(* helpers.rs: build_key, which serializes a key of any type K: Serialize  *)
(* before it builds.  The keys of the model are a u8, a Vec<u8> and a map  *)
(* of one entry whose key is a u8 or a Vec<u8>.  serde_json writes a map   *)
(* key that is a number as a quoted string and refuses one that is a       *)
(* sequence ("key must be a string").                                      *)
(***************************************************************************)
LBrace == 123
RBrace == 125
Quote == 34
Colon == 58

\* a key: kind "u8" (val = <<n>>), "bytes" (val = the Vec<u8>) or "map"
\* (key_kind and key: the entry's key; val = <<n>>, the entry's value)
U8Key(n) == [kind |-> "u8", key_kind |-> "", key |-> <<>>, val |-> <<n>>]
BytesKey(v) == [kind |-> "bytes", key_kind |-> "", key |-> <<>>, val |-> v]
MapKey(k, n) == [kind |-> "map", key_kind |-> k.kind, key |-> k.val, val |-> <<n>>]

\* serde_json::to_vec(&key): Ok(bytes) or Err
ToVecKey(key) ==
    IF key.kind = "u8" THEN [ok |-> TRUE, bytes |-> ToVecNum(key.val[1])]
    ELSE IF key.kind = "bytes" THEN [ok |-> TRUE, bytes |-> ToVecBytes(key.val)]
    ELSE IF key.key_kind = "u8"
         THEN [ok |-> TRUE,
               bytes |-> <<LBrace, Quote>> \o ToVecNum(key.key[1]) \o <<Quote, Colon>>
                         \o ToVecNum(key.val[1]) \o <<RBrace>>]
         ELSE [ok |-> FALSE, bytes |-> <<>>]

\* what a call leaves its caller with: the Vec<u8> returned, or a panic
Returned(bytes) == [status |-> "Ok", value |-> bytes]
Panicked == [status |-> "panic", value |-> <<>>]

\* build_key::<V, K>(label, key): Result::unwrap panics on Err
BuildKeyUnwrap(version, label, key) ==
    LET serialized == ToVecKey(key)
    IN IF serialized.ok
       THEN Returned(BuildKeyFromVec(version, label, serialized.bytes))
       ELSE Panicked

SerKeys ==
    {U8Key(0), U8Key(42), BytesKey(<<>>), BytesKey(<<1, 2>>),
     MapKey(U8Key(1), 2), MapKey(BytesKey(<<1>>), 2), MapKey(BytesKey(<<>>), 0)}
SerVersions == {0, 1, 258}

SerInit ==
    /\ StoreInit(0)
    /\ kbLabel \in ByteStrings(MaxKeyLen)
    /\ kbKey \in SerKeys
    /\ kbBuilt = {}

\* a call build_key::<version, _>(label, key); a panic ends the caller
CallBuildKey(version) ==
    /\ \A b \in kbBuilt : b.key_out # Panicked
    /\ kbBuilt' = kbBuilt \cup
            {[version |-> version, key_out |-> BuildKeyUnwrap(version, kbLabel, kbKey)]}
    /\ UNCHANGED <<kbLabel, kbKey>>
    /\ UNCHANGED storeVars

SerNext == \E version \in SerVersions : CallBuildKey(version)

SerSpec == SerInit /\ [][SerNext]_vars

(***************************************************************************)
(* helpers.rs: epoch_key_pairs_id.  group_id and epoch are of any type     *)
(* that serializes (the keys above); leaf_index is a u32, written as its   *)
(* decimal digits.  Two calls are made and their inputs kept beside what   *)
(* they returned.                                                          *)
(***************************************************************************)
\* epoch_key_pairs_id with the epoch written before the group id
EpochKeyPairsIdEpochFirst(group_id, epoch, leaf_index) ==
    LET group == ToVecKey(group_id)
        epoch_bytes == ToVecKey(epoch)
    IN IF ~group.ok \/ ~epoch_bytes.ok THEN SerializationError
       ELSE Ok(epoch_bytes.bytes \o group.bytes \o ToVecNum(leaf_index))

\* epoch_key_pairs_id(group_id, epoch, leaf_index): each to_vec(..)? returns
\* the error at once; a u32 always serializes
EpochKeyPairsId(group_id, epoch, leaf_index) ==
    LET group == ToVecKey(group_id)
    IN IF ~group.ok THEN SerializationError
       ELSE LET epoch_bytes == ToVecKey(epoch)
            IN IF ~epoch_bytes.ok THEN SerializationError
               ELSE LET key == group.bytes \o epoch_bytes.bytes
                    IN Ok(key \o ToVecNum(leaf_index))

GroupIds == {U8Key(1), U8Key(12), BytesKey(<<1>>), MapKey(U8Key(1), 2),
             MapKey(BytesKey(<<1>>), 2)}
EpochKeys == {U8Key(1), U8Key(12), U8Key(2), MapKey(U8Key(1), 2),
              MapKey(BytesKey(<<1>>), 2)}
LeafIndexes == {0, 2, 3, 23, 1000000}

\* a call epoch_key_pairs_id(group_id, epoch, leaf_index), the first or the
\* second
CallEpochKeyPairsId(group_id, epoch, leaf_index) ==
    /\ kbBuilt = {} \/ \E b \in kbBuilt : kbBuilt = {b}
    /\ kbBuilt' = kbBuilt \cup
            {[group_id |-> group_id, epoch |-> epoch, leaf_index |-> leaf_index,
              id |-> EpochKeyPairsId(group_id, epoch, leaf_index)]}
    /\ UNCHANGED <<kbLabel, kbKey>>
    /\ UNCHANGED storeVars

IdNext ==
    \E group_id \in GroupIds, epoch \in EpochKeys, leaf_index \in LeafIndexes :
        CallEpochKeyPairsId(group_id, epoch, leaf_index)

IdSpec == PairInit /\ [][IdNext]_vars

(***************************************************************************)
(* Properties of the key builder, stated for KeySpec                       *)
(***************************************************************************)
\* C9: every built key is the label, then the key bytes, then the version as
\* two bytes, high byte first; its length is len(label) + len(key) + 2; the
\* same version, label and key give the same bytes.
C9_KeyIsLabelKeyVersion ==
    \A b \in kbBuilt :
        LET out == b.key_out
            n == Len(out)
        IN /\ n = Len(kbLabel) + Len(kbKey) + 2
           /\ \A i \in 1..Len(kbLabel) : out[i] = kbLabel[i]
           /\ \A i \in 1..Len(kbKey) : out[Len(kbLabel) + i] = kbKey[i]
           /\ out[n - 1] \in 0..ByteMax
           /\ out[n] \in 0..ByteMax
           /\ out[n - 1] * (ByteMax + 1) + out[n] = b.version
           /\ \A b2 \in kbBuilt : b2.version = b.version => b2.key_out = out

\* an empty label and an empty key were built into just the two version bytes,
\* and a version above 255 was built
C9_Witness ==
    /\ kbLabel = <<>>
    /\ kbKey = <<>>
    /\ [version |-> 1, key_out |-> <<0, 1>>] \in kbBuilt
    /\ [version |-> 258, key_out |-> <<1, 2>>] \in kbBuilt

\* C10: the last two bytes of a built key are the big-endian u16 of its
\* version; keys built from one label and key for two different versions have
\* the same length, agree everywhere before the last two bytes and differ
\* within them.
C10_VersionTagsTheKey ==
    \A b1 \in kbBuilt :
        LET n == Len(b1.key_out)
        IN /\ n >= 2
           /\ b1.key_out[n - 1] = b1.version \div 256
           /\ b1.key_out[n] = b1.version % 256
           /\ \A b2 \in kbBuilt :
                b2.version # b1.version =>
                    /\ Len(b2.key_out) = n
                    /\ \A i \in 1..(n - 2) : b2.key_out[i] = b1.key_out[i]
                    /\ \E i \in {n - 1, n} : b2.key_out[i] # b1.key_out[i]

\* a non-empty label and key built for versions 1 and 2, and for 0 and 256
C10_Witness ==
    /\ Len(kbLabel) > 0
    /\ Len(kbKey) > 0
    /\ {0, 1, 2, 256} \subseteq {b.version : b \in kbBuilt}

(***************************************************************************)
(* Properties of the adapter                                               *)
(***************************************************************************)
\* caller c has returned from op
Done(c, op) == pc[c] = "idle" /\ call[c].op = op
DoneOk(c, op) == Done(c, op) /\ result[c].status = "Ok"

\* value is what serde_json::to_vec writes for some entity, and that entity
IsEntityBytes(value) == \E e \in 0..ByteMax : ToVecNum(e) = value
EntityOfBytes(value) == CHOOSE e \in 0..ByteMax : ToVecNum(e) = value

\* C1: when the values appended to an absent key, one call after the other and
\* with no other operation on the key in between, are the encodings of entities
\* e1..eN, read_list on the key returns exactly [e1..eN] (unless sled itself
\* reports an error).  Stated for SeqSpec.
C1_AppendsReadBackInOrder ==
    [][\A c \in Callers :
        LET h == HistOf(c)
        IN (/\ pc[c] = "read_list_get"
            /\ pc'[c] = "idle"
            /\ h.kind \in {"absent", "appends"}
            /\ \A i \in 1..Len(h.data) : IsEntityBytes(h.data[i])
            /\ result'[c].status # "SledError")
           => result'[c] = Ok([i \in 1..Len(h.data) |-> EntityOfBytes(h.data[i])])
      ]_vars

\* read_list returned [1, 2, 1] for a key to which 1, 2, 1 were appended
C1_Witness ==
    \E c \in Callers :
        /\ DoneOk(c, "read_list")
        /\ HistOf(c) = [kind |-> "appends", data |-> <<EntityOne, EntityTwo, EntityOne>>,
                        note |-> ""]
        /\ result[c].value = <<1, 2, 1>>

\* C2: when the last change of a key was a successful write of the encoding of
\* an entity e, whatever the key held before, read returns Some(e) (unless sled
\* itself reports an error).  Stated for SeqSpec.
C2_ReadReturnsLastWrite ==
    [][\A c \in Callers :
        LET h == HistOf(c)
        IN (/\ pc[c] = "read_get"
            /\ pc'[c] = "idle"
            /\ h.kind = "write"
            /\ IsEntityBytes(h.data[1])
            /\ result'[c].status # "SledError")
           => result'[c] = Ok(OptSome(EntityOfBytes(h.data[1])))
      ]_vars

\* read returned Some(2) from a key whose last write, of 2, replaced an entry
C2_Witness ==
    \E c \in Callers :
        /\ DoneOk(c, "read")
        /\ HistOf(c) = [kind |-> "write", data |-> <<EntityTwo>>, note |-> "over"]
        /\ result[c].value = OptSome(2)

\* the list l without its element at position i
Without(l, i) == SubSeq(l, 1, i - 1) \o SubSeq(l, i + 1, Len(l))
Occurrences(l, v) == Cardinality({i \in 1..Len(l) : l[i] = v})

\* C3: when remove_item(v) writes back over the list L it read, and L holds v,
\* the list stored afterwards is L without its first element equal to v, byte
\* for byte: the others keep their order, and one copy of v fewer is stored.
\* Stated for SeqSpec.
C3_RemovesFirstMatchOnly ==
    [][\A c \in Callers :
        LET L == FromSliceList(got[c].bytes).val
            v == call[c].value
            after == trees'[call[c].tree][call[c].key]
            L2 == FromSliceList(after.bytes)
        IN (/\ pc[c] = "remove_item_insert"
            /\ pc'[c] = "idle"
            /\ result'[c].status = "Ok"
            /\ Cell(c) = got[c]
            /\ \E i \in 1..Len(L) : L[i] = v)
           => /\ after.present
              /\ L2.ok
              /\ \E i \in 1..Len(L) :
                    /\ L[i] = v
                    /\ \A j \in 1..(i - 1) : L[j] # v
                    /\ L2.val = Without(L, i)
              /\ Occurrences(L2.val, v) = Occurrences(L, v) - 1
      ]_vars

\* remove_item(1) on the stored list [1, 2, 1] left [2, 1]
C3_Witness ==
    \E c \in Callers :
        /\ DoneOk(c, "remove_item")
        /\ solo[c]
        /\ call[c].value = EntityOne
        /\ got[c] = Some(ToVecList(<<EntityOne, EntityTwo, EntityOne>>))
        /\ Cell(c) = Some(ToVecList(<<EntityTwo, EntityOne>>))

\* C4: when delete_all_data has returned Ok and no other caller has taken a
\* step since it began, no key of any tree, the default tree included, holds an
\* entry: read of it gives None and read_list the empty list.  Stated for
\* SeqSpec.
C4_DeleteAllLeavesNothing ==
    \A c \in Callers :
        (DoneOk(c, "delete_all_data") /\ solo[c])
        => \A t \in Trees, k \in Keys :
                /\ ~trees[t][k].present
                /\ ReadValue(trees[t][k]) = Ok(OptNone)
                /\ ReadListValue(trees[t][k]) = Ok(<<>>)

\* delete_all_data returned Ok after it cleared entries of the default tree and
\* of the tree t1
C4_Witness ==
    \E c \in Callers :
        /\ DoneOk(c, "delete_all_data")
        /\ solo[c]
        /\ hist[DefaultTree]["k1"].note = "cleared"
        /\ \E k \in Keys : hist["t1"][k].note = "cleared"

\* C5: read of a key that holds no entry returns Ok(None) and read_list of it
\* returns Ok of the empty list; the only error either can return is sled's
\* own.  Stated for SeqSpec.
C5_AbsentKeyReadsEmpty ==
    [][\A c \in Callers :
        /\ (pc[c] = "read_get" /\ pc'[c] = "idle" /\ ~Cell(c).present)
           => result'[c] \in {Ok(OptNone), SledError}
        /\ (pc[c] = "read_list_get" /\ pc'[c] = "idle" /\ ~Cell(c).present)
           => result'[c] \in {Ok(<<>>), SledError}
      ]_vars

\* read returned None for a key whose entry had been deleted
C5_Witness ==
    \E c \in Callers :
        /\ Done(c, "read")
        /\ result[c] = Ok(OptNone)
        /\ ~got[c].present
        /\ HistOf(c) = [kind |-> "absent", data |-> <<>>, note |-> "deleted"]

\* C6: remove_item on a key that holds no entry ends at its get: it returns Ok
\* (or sled's own error), inserts nothing, and leaves every key of every tree
\* as it was; the key is still absent.  Stated for SeqSpec.
C6_RemoveItemOnAbsentIsNoOp ==
    [][\A c \in Callers :
        (pc[c] = "remove_item_get" /\ pc'[c] # pc[c] /\ ~Cell(c).present)
        => /\ pc'[c] = "idle"
           /\ result'[c] \in {Ok(<<>>), SledError}
           /\ trees' = trees
           /\ ~trees'[call[c].tree][call[c].key].present
      ]_vars

\* remove_item returned Ok on an absent key while another key held an entry
C6_Witness ==
    \E c \in Callers :
        /\ DoneOk(c, "remove_item")
        /\ ~got[c].present
        /\ ~Cell(c).present
        /\ \E t \in Trees, k \in Keys : trees[t][k].present

\* C7: the remove of delete returns Ok (or sled's own error) whatever the key
\* holds; after Ok the key holds no entry, so that read gives None and
\* read_list the empty list, every other key is as it was, and deleting an
\* absent key changes nothing.  Stated for SeqSpec.
C7_DeleteAlwaysRemoves ==
    [][\A c \in Callers :
        (pc[c] = "delete_remove" /\ pc'[c] # pc[c])
        => /\ pc'[c] = "idle"
           /\ result'[c] \in {Ok(<<>>), SledError}
           /\ result'[c].status = "Ok" =>
                LET after == trees'[call[c].tree][call[c].key]
                IN /\ ~after.present
                   /\ ReadValue(after) = Ok(OptNone)
                   /\ ReadListValue(after) = Ok(<<>>)
                   /\ \A t \in Trees, k \in Keys :
                        <<t, k>> # <<call[c].tree, call[c].key>>
                        => trees'[t][k] = trees[t][k]
                   /\ ~Cell(c).present => trees' = trees
      ]_vars

\* delete returned Ok on a key that held a list of two elements
C7_Witness ==
    \E c \in Callers :
        /\ DoneOk(c, "delete")
        /\ got[c].present
        /\ FromSliceList(got[c].bytes).ok
        /\ Len(FromSliceList(got[c].bytes).val) = 2
        /\ ~Cell(c).present

\* C8: append is not atomic.  Whenever two callers have both returned Ok from
\* an append to the same key of the same tree and both had read the same
\* stored list L, the key holds L and then the element of one of them only:
\* the other element is lost.  The witness is the state where that happened
\* with two different elements.  Stated for Spec.
C8_ConcurrentAppendsLoseOne ==
    \A c1, c2 \in Callers :
        (/\ c1 # c2
         /\ DoneOk(c1, "append")
         /\ DoneOk(c2, "append")
         /\ call[c1].tree = call[c2].tree
         /\ call[c1].key = call[c2].key
         /\ got[c1] = got[c2])
        => LET L == IF got[c1].present THEN FromSliceList(got[c1].bytes).val ELSE <<>>
               stored == FromSliceList(Cell(c1).bytes)
           IN /\ Cell(c1).present
              /\ stored.ok
              /\ stored.val \in {Append(L, call[c1].value), Append(L, call[c2].value)}

\* both appends, of 1 and of 2, returned Ok and the key holds one element
C8_Witness ==
    /\ DoneOk("c1", "append")
    /\ DoneOk("c2", "append")
    /\ call["c1"].tree = call["c2"].tree
    /\ call["c1"].key = call["c2"].key
    /\ call["c1"].value = EntityOne
    /\ call["c2"].value = EntityTwo
    /\ ~got["c1"].present
    /\ ~got["c2"].present
    /\ Cell("c1") \in {Some(ToVecList(<<EntityOne>>)), Some(ToVecList(<<EntityTwo>>))}

(***************************************************************************)
(* Properties of two calls of the key builder, stated for PairSpec         *)
(***************************************************************************)
\* label a is the beginning of label b
IsPrefix(a, b) == Len(a) <= Len(b) /\ SubSeq(b, 1, Len(a)) = a

\* the labels of two calls are equal, or neither begins the other, or they
\* have one length
LabelsDisjoint(a, b) ==
    \/ a = b
    \/ ~IsPrefix(a, b) /\ ~IsPrefix(b, a)
    \/ Len(a) = Len(b)

\* C11: two calls of build_key_from_vec whose labels are equal, or such that
\* neither is a prefix of the other, or of the same length, give the same
\* bytes only if they had the same label and the same key bytes.
C11_KeysDoNotCollide ==
    \A b1, b2 \in kbBuilt :
        (LabelsDisjoint(b1.label, b2.label) /\ b1.key_out = b2.key_out)
        => (b1.label = b2.label /\ b1.key = b2.key)

\* keys of one length were built from two labels of different lengths, neither
\* the beginning of the other, and from different key bytes
C11_Witness ==
    \E b1, b2 \in kbBuilt :
        /\ Len(b1.label) < Len(b2.label)
        /\ b1.label # <<>>
        /\ ~IsPrefix(b1.label, b2.label)
        /\ b1.key # b2.key
        /\ Len(b1.key_out) = Len(b2.key_out)
        /\ b1.key_out # b2.key_out

(***************************************************************************)
(* Properties of build_key, stated for SerSpec                             *)
(***************************************************************************)
\* C12: build_key never panics; when the key cannot be serialized the caller
\* gets an error value (the encode error), and otherwise the key built from
\* the serialized bytes.
C12_BuildKeyPropagatesEncodeError ==
    \A b \in kbBuilt :
        /\ b.key_out # Panicked
        /\ ~ToVecKey(kbKey).ok => b.key_out = SerializationError
        /\ ToVecKey(kbKey).ok =>
                b.key_out = Returned(BuildKeyFromVec(b.version, kbLabel, ToVecKey(kbKey).bytes))

(***************************************************************************)
(* More properties of the adapter                                          *)
(***************************************************************************)
\* the list remove_item read, and whether it holds the value to remove
ListRead(c) == FromSliceList(got[c].bytes).val
NoMatch(c) == \A i \in 1..Len(ListRead(c)) : ListRead(c)[i] # call[c].value

\* remove_item that found no byte-equal element: it goes on to write the list
\* back, returns Ok (or sled's own error) and the key holds the same elements
\* in the same order
RemoveWithoutMatchKeepsList(c) ==
    /\ (/\ pc[c] = "remove_item_get"
        /\ pc'[c] # pc[c]
        /\ Cell(c).present
        /\ FromSliceList(Cell(c).bytes).ok
        /\ \A i \in 1..Len(FromSliceList(Cell(c).bytes).val) :
                FromSliceList(Cell(c).bytes).val[i] # call[c].value)
       => (pc'[c] = "remove_item_insert" \/ result'[c] = SledError)
    /\ (/\ pc[c] = "remove_item_insert"
        /\ pc'[c] = "idle"
        /\ Cell(c) = got[c]
        /\ NoMatch(c))
       => /\ result'[c] \in {Ok(<<>>), SledError}
          /\ trees'[call[c].tree][call[c].key].present
          /\ FromSliceList(trees'[call[c].tree][call[c].key].bytes) =
                [ok |-> TRUE, val |-> ListRead(c)]

\* the remove_item of c, returning Ok, is the second of two in succession of
\* the same value on the same key
SecondRemoveReturns(c) ==
    /\ pc[c] = "remove_item_insert"
    /\ pc'[c] = "idle"
    /\ result'[c].status = "Ok"
    /\ prev[c] \in {"once", "dup"}
    /\ Cell(c) = got[c]

\* C13 as claimed: for every stored list and value, a second remove_item of the
\* value right after the first leaves the list the first left; and a
\* remove_item that matches nothing returns Ok and leaves the list as it was.
C13_RemoveTwiceIsRemoveOnce ==
    [][\A c \in Callers :
        /\ SecondRemoveReturns(c) => trees'[call[c].tree][call[c].key] = Cell(c)
        /\ RemoveWithoutMatchKeepsList(c)
      ]_vars

\* C13 as amended: the same for every stored list that held the value at most
\* once before the first of the two calls; a list that held it twice or more
\* loses a second copy to the second call.
C13_RemoveTwiceIsRemoveOnceIfNoDuplicate ==
    [][\A c \in Callers :
        /\ (SecondRemoveReturns(c) /\ prev[c] = "once")
           => trees'[call[c].tree][call[c].key] = Cell(c)
        /\ RemoveWithoutMatchKeepsList(c)
      ]_vars

\* a second remove_item(1) in succession returned Ok on the list [2], which
\* the first had left of a list that held 1 once
C13_Witness ==
    \E c \in Callers :
        /\ DoneOk(c, "remove_item")
        /\ call[c].value = EntityOne
        /\ prev[c] = "once"
        /\ got[c] = Some(ToVecList(<<EntityTwo>>))
        /\ Cell(c) = got[c]

\* the stored bytes decode as a written value: the wrapper, then the entity
DecodesAsValue(bytes) ==
    /\ FromSliceBytes(bytes).ok
    /\ FromSliceEntity(FromSliceBytes(bytes).val).ok

\* the stored bytes decode as a list, every element of it as an entity
DecodesAsList(bytes) ==
    /\ FromSliceList(bytes).ok
    /\ \A i \in 1..Len(FromSliceList(bytes).val) :
            FromSliceEntity(FromSliceList(bytes).val[i]).ok

IsError(r) == r.status \in {"SerializationError", "SledError"}

\* C14: when the key read holds bytes that do not decode (in read: the
\* wrapper or the entity in it; in read_list: the list or any element of it),
\* read and read_list return an error: never Ok(None), never Ok of an empty or
\* shorter list.  Stated for SeqSpec.
C14_FailedDecodeIsAnError ==
    [][\A c \in Callers :
        /\ (/\ pc[c] = "read_get"
            /\ pc'[c] = "idle"
            /\ Cell(c).present
            /\ ~DecodesAsValue(Cell(c).bytes))
           => (IsError(result'[c]) /\ result'[c] # Ok(OptNone))
        /\ (/\ pc[c] = "read_list_get"
            /\ pc'[c] = "idle"
            /\ Cell(c).present
            /\ ~DecodesAsList(Cell(c).bytes))
           => (IsError(result'[c]) /\ result'[c].status # "Ok")
      ]_vars

\* read_list returned SerializationError for the stored list [1, "["]: its
\* first element decodes, its second does not
C14_Witness ==
    \E c \in Callers :
        /\ Done(c, "read_list")
        /\ got[c] = Some(ToVecList(<<EntityOne, NotAnEntity>>))
        /\ result[c] = SerializationError

\* the steps of the per-key operations after their open_tree
ReadingPcs == {"read_get", "read_list_get"}
ChangingPcs == {"write_insert", "append_get", "append_insert",
                "remove_item_get", "remove_item_insert", "delete_remove"}
PerKeyOps == {"write", "append", "read", "read_list", "remove_item", "delete"}

\* C15: a step of write, append, remove_item or delete on a key of a tree
\* leaves the bytes stored at every other key of that tree and at every key of
\* every other tree as they were, the same key in another tree included; a
\* step of read or read_list, and the open_tree every operation begins with,
\* leave all stored bytes as they were.  Stated for Spec.
C15_PerKeyOperationsAreLocal ==
    [][\A c \in Callers :
        /\ (pc[c] \in ChangingPcs /\ pc'[c] # pc[c])
           => \A t \in Trees, k \in Keys :
                <<t, k>> # <<call[c].tree, call[c].key>> => trees'[t][k] = trees[t][k]
        /\ (pc[c] \in ReadingPcs /\ pc'[c] # pc[c]) => trees' = trees
        /\ (pc[c] = "idle" /\ left' # left /\ call'[c].op \in PerKeyOps) => trees' = trees
      ]_vars

\* write of 2 to key k1 of tree t1 returned Ok while key k1 of the default
\* tree held the value 1 written before, and still holds it
C15_Witness ==
    \E c \in Callers :
        /\ DoneOk(c, "write")
        /\ call[c].tree = "t1"
        /\ call[c].key = "k1"
        /\ trees["t1"]["k1"] = Some(WriteSerialized(EntityTwo))
        /\ trees[DefaultTree]["k1"] = Some(WriteSerialized(EntityOne))

(***************************************************************************)
(* Properties of epoch_key_pairs_id, stated for IdSpec                     *)
(***************************************************************************)
\* C16: when group_id and epoch serialize, epoch_key_pairs_id returns Ok of
\* the serialized group_id, then the serialized epoch, then the serialized
\* leaf_index, and nothing else: its length is the sum of the three lengths;
\* when one of them does not serialize it returns the error, with no bytes.
C16_IdIsGroupEpochLeaf ==
    \A b \in kbBuilt :
        LET g == ToVecKey(b.group_id)
            e == ToVecKey(b.epoch)
            l == ToVecNum(b.leaf_index)
            out == b.id.value
        IN IF g.ok /\ e.ok
           THEN /\ b.id.status = "Ok"
                /\ Len(out) = Len(g.bytes) + Len(e.bytes) + Len(l)
                /\ \A i \in 1..Len(g.bytes) : out[i] = g.bytes[i]
                /\ \A i \in 1..Len(e.bytes) : out[Len(g.bytes) + i] = e.bytes[i]
                /\ \A i \in 1..Len(l) : out[Len(g.bytes) + Len(e.bytes) + i] = l[i]
           ELSE /\ b.id.status = "SerializationError"
                /\ out = <<>>

\* the id of ({"1":2}, 12, 23) is the bytes of {"1":2}1223, and a call whose
\* epoch does not serialize returned the error
C16_Witness ==
    /\ \E b \in kbBuilt :
            /\ b.group_id = MapKey(U8Key(1), 2)
            /\ b.epoch = U8Key(12)
            /\ b.leaf_index = 23
            /\ b.id = Ok(<<LBrace, Quote, Digit(1), Quote, Colon, Digit(2), RBrace,
                           Digit(1), Digit(2), Digit(2), Digit(3)>>)
    /\ \E b \in kbBuilt :
            /\ ToVecKey(b.group_id).ok
            /\ ~ToVecKey(b.epoch).ok
            /\ b.id = SerializationError

\* C17: two calls of epoch_key_pairs_id that both return Ok and differ in
\* group_id, epoch or leaf_index return different bytes.
C17_IdsAreUnique ==
    \A b1, b2 \in kbBuilt :
        (/\ b1.id.status = "Ok"
         /\ b2.id.status = "Ok"
         /\ <<b1.group_id, b1.epoch, b1.leaf_index>> # <<b2.group_id, b2.epoch, b2.leaf_index>>)
        => b1.id # b2.id

(***************************************************************************)
(* Properties of flush, stated for DurSpec                                 *)
(***************************************************************************)
\* the step is c's call of flush
FlushStep(c) == pc[c] = "idle" /\ left' # left /\ call'[c].op = "flush"

\* the step is a crash that finds c back from a flush that returned Ok
CrashAfterFlush(c) ==
    /\ call'[c].op = "reopen_flushed"
    /\ pc[c] = "idle"
    /\ call[c].op = "flush"
    /\ result[c].status = "Ok"

\* C18: flush changes nothing stored in any tree; when it returns Ok, all that
\* the trees hold, and so every change acknowledged before the call, is on
\* stable storage; a crash that comes before any further operation loses
\* nothing: every key holds after the restart what it held before the crash.
C18_FlushMakesDurable ==
    [][\A c \in Callers :
        /\ FlushStep(c) =>
                /\ trees' = trees
                /\ treeNames' = treeNames
                /\ result'[c].status = "Ok" => (disk'.trees = trees /\ disk'.names = treeNames)
        /\ CrashAfterFlush(c) => (trees' = trees /\ treeNames' = treeNames /\ hist' = hist)
      ]_vars

\* after write of 1 to key k1 of tree t1, a flush that returned Ok and a
\* crash, the restarted store holds the value
C18_Witness ==
    /\ call["c1"].op = "reopen_flushed"
    /\ hist["t1"]["k1"] = [kind |-> "write", data |-> <<EntityOne>>, note |-> "fresh"]
    /\ trees["t1"]["k1"] = Some(WriteSerialized(EntityOne))
    /\ "t1" \in treeNames

(***************************************************************************)
(* Properties of delete_all_data beside another caller, stated for         *)
(* ResetSpec                                                               *)
(***************************************************************************)
\* every tree but those of the set is left as it was
OnlyChanged(changed) == \A t \in Trees \ changed : trees'[t] = trees[t]

\* C19: delete_all_data is not one step.  Listing the trees clears nothing;
\* each turn of its loop clears one listed tree and leaves every other tree,
\* cleared or not yet, holding what it holds; the clear of the default tree
\* and the flush come after, and the flush returns Ok without a look at what
\* the trees hold by then.  So another caller can see one tree cleared beside
\* one that still holds its entries, and what it writes into a tree already
\* cleared stays (the witness).
C19_DeleteAllClearsTreeByTree ==
    [][\A c \in Callers :
        /\ (pc[c] = "idle" /\ pc'[c] = "delete_all_trees") => trees' = trees
        /\ (pc[c] = "delete_all_trees" /\ todo'[c] # todo[c])
           => \E tree \in todo[c] :
                /\ todo'[c] = todo[c] \ {tree}
                /\ trees'[tree] = EmptyTree
                /\ OnlyChanged({tree})
        /\ (pc[c] = "delete_all_trees" /\ pc'[c] = "delete_all_flush")
           => (trees'[DefaultTree] = EmptyTree /\ OnlyChanged({DefaultTree}))
        /\ (pc[c] = "delete_all_flush" /\ pc'[c] = "idle")
           => (trees' = trees /\ result'[c] \in {Ok(<<>>), SledError})
      ]_vars

\* delete_all_data of c1 returned Ok, and its flush wrote out, the value 1
\* that c2 had written to key k1 of tree t1 after the call had cleared the 2
\* stored there: the store is not empty
C19_Witness ==
    /\ DoneOk("c1", "delete_all_data")
    /\ DoneOk("c2", "write")
    /\ call["c2"].tree = "t1"
    /\ call["c2"].key = "k1"
    /\ trees["t1"]["k1"] = Some(WriteSerialized(EntityOne))
    /\ disk.trees["t1"]["k1"] = Some(WriteSerialized(EntityOne))
    /\ ~trees[DefaultTree]["k1"].present

(***************************************************************************)
(* No partial write, stated for SeqSpec                                    *)
(***************************************************************************)
ChangingOps == {"write", "append", "remove_item", "delete"}
LastPcs == {"write_insert", "append_insert", "remove_item_insert", "delete_remove"}

\* the list l without its first element equal to v, if it has one
WithoutFirst(l, v) ==
    IF \E i \in 1..Len(l) : l[i] = v
    THEN Without(l, CHOOSE i \in 1..Len(l) : l[i] = v /\ \A j \in 1..(i - 1) : l[j] # v)
    ELSE l

\* what the key of c holds once c's operation has returned Ok from its last
\* backend call, told from the arguments and from the list it read
StoredOnOk(c) ==
    LET L == IF got[c].present THEN FromSliceList(got[c].bytes).val ELSE <<>>
    IN IF call[c].op = "write" THEN Some(ToVecBytes(call[c].value))
       ELSE IF call[c].op = "append" THEN Some(ToVecList(Append(L, call[c].value)))
       ELSE IF call[c].op = "remove_item" THEN Some(ToVecList(WithoutFirst(L, call[c].value)))
       ELSE None

\* C20: write, append, remove_item and delete store nothing before their last
\* backend call; when one returns an error, from sled or from a stored list
\* that does not decode, every key of every tree holds what it held before
\* the call; when one returns Ok from its last call, the addressed key holds
\* the whole new value or list (nothing, after delete) and every other key
\* what it held.  Each returns Ok or one of the two errors.
C20_NoPartialWrite ==
    [][\A c \in Callers :
        /\ (pc[c] = "idle" /\ left' # left /\ call'[c].op \in ChangingOps)
           => trees' = trees
        /\ (pc[c] \in {"append_get", "remove_item_get"} /\ pc'[c] # pc[c])
           => trees' = trees
        /\ (pc[c] \in LastPcs /\ pc'[c] = "idle")
           => IF result'[c].status = "Ok"
              THEN trees' = SetCell(c, StoredOnOk(c))
              ELSE trees' = trees
        /\ (call'[c].op \in ChangingOps /\ result'[c] # result[c])
           => result'[c].status \in {"Ok", "SledError", "SerializationError", "none"}
      ]_vars

\* append to a key that holds a written value, which is no list, returned
\* SerializationError and the key still holds the value
C20_Witness ==
    \E c \in Callers :
        /\ Done(c, "append")
        /\ result[c] = SerializationError
        /\ got[c] = Some(WriteSerialized(EntityOne))
        /\ Cell(c) = got[c]
        /\ HistOf(c) = [kind |-> "write", data |-> <<EntityOne>>, note |-> "fresh"]

(***************************************************************************)
(* The trees of the Db (db.tree_names()), stated for Spec                  *)
(***************************************************************************)
\* the step is an open_tree of a per-key operation of c that worked
Opens(c) == pc[c] = "idle" /\ pc'[c] \notin {"idle", "delete_all_trees"}

\* C21: a store opened on a fresh path has the default tree only; every step
\* leaves the trees it has and adds exactly those named by the operations
\* whose open_tree worked in it, whatever the operation (read, read_list,
\* remove_item and delete as well as write and append); so the set never
\* shrinks, and the steps of delete_all_data and flush, which open no tree
\* but those the Db has, leave it as it is.
C21_TreeNamesOnlyGrow ==
    /\ treeNames = {DefaultTree}
    /\ [][/\ treeNames \subseteq treeNames'
          /\ treeNames' = treeNames \cup {call'[c].tree : c \in {d \in Callers : Opens(d)}}
        ]_vars

\* read of key k1 of the tree t1, never used before, returned Ok(None); then
\* delete_all_data of the other caller returned Ok: t1 is still a tree of the
\* Db, and empty
C21_Witness ==
    /\ DoneOk("c1", "read")
    /\ call["c1"].tree = "t1"
    /\ result["c1"] = Ok(OptNone)
    /\ DoneOk("c2", "delete_all_data")
    /\ solo["c2"]
    /\ treeNames = {DefaultTree, "t1"}
    /\ trees = [t \in Trees |-> EmptyTree]

(***************************************************************************)
(* The steps of delete_all_data, stated for DurSpec                        *)
(***************************************************************************)
\* the step is the tree_names() that begins c's delete_all_data
DeleteAllStarts(c) == pc[c] = "idle" /\ pc'[c] = "delete_all_trees"

\* the step is a backend call of c's delete_all_data: a turn of its loop, the
\* clear of the default tree or the flush
DeleteAllStep(c) ==
    /\ pc[c] \in {"delete_all_trees", "delete_all_flush"}
    /\ call'[c] = call[c]
    /\ pc'[c] # pc[c] \/ todo'[c] # todo[c]

AllEmpty == [t \in Trees |-> EmptyTree]

\* C22: delete_all_data lists the trees and changes nothing yet; as long as a
\* listed tree is left it clears one of them and nothing else; with none left
\* it clears the default tree; then it flushes, which clears nothing and leaves
\* the stable copy equal to the store.  A step that fails returns SledError at
\* once: it clears nothing, writes nothing out and no later step follows.  Ok
\* is returned by the flush only, after every listed tree was cleared.  On a
\* store that holds nothing every step leaves it holding nothing.
C22_DeleteAllStepsInOrder ==
    [][\A c \in Callers :
        /\ DeleteAllStarts(c)
           => (todo'[c] = treeNames /\ trees' = trees /\ disk' = disk)
        /\ DeleteAllStep(c)
           => IF result'[c] = SledError
              THEN /\ pc'[c] = "idle"
                   /\ trees' = trees
                   /\ disk' = disk
                   /\ todo' = todo
              ELSE IF pc[c] = "delete_all_trees" /\ todo[c] # {}
              THEN /\ \E tree \in todo[c] :
                        /\ todo'[c] = todo[c] \ {tree}
                        /\ trees' = [trees EXCEPT ![tree] = EmptyTree]
                   /\ pc'[c] = pc[c]
                   /\ result'[c] = NoResult
                   /\ disk' = disk
              ELSE IF pc[c] = "delete_all_trees"
              THEN /\ trees' = [trees EXCEPT ![DefaultTree] = EmptyTree]
                   /\ pc'[c] = "delete_all_flush"
                   /\ result'[c] = NoResult
                   /\ disk' = disk
              ELSE /\ trees' = trees
                   /\ disk'.trees = trees
                   /\ disk'.names = treeNames
                   /\ pc'[c] = "idle"
                   /\ result'[c] = Ok(<<>>)
        /\ (DeleteAllStep(c) /\ result'[c].status = "Ok")
           => (pc[c] = "delete_all_flush" /\ todo[c] = {})
        /\ (DeleteAllStep(c) /\ trees = AllEmpty) => trees' = AllEmpty
      ]_vars

\* after a write of 1 to key k1 of tree t1, delete_all_data returned Ok: the
\* key was cleared, every tree is empty and the stable copy is the empty store
C22_Witness ==
    /\ DoneOk("c1", "delete_all_data")
    /\ hist["t1"]["k1"] = [kind |-> "absent", data |-> <<>>, note |-> "cleared"]
    /\ todo["c1"] = {}
    /\ trees = AllEmpty
    /\ disk = OnDisk(TRUE)

(***************************************************************************)
(* append and remove_item of callers that keep to different keys, stated   *)
(* for ConfinedSpec                                                        *)
(***************************************************************************)
\* what is stored at the key c's operation names, and the list it decodes to
StoredAt(c) == trees[call[c].tree][call[c].key]
ListAt(c) == IF StoredAt(c).present THEN FromSliceList(StoredAt(c).bytes).val ELSE <<>>
StoresAt(c, list) ==
    trees' = [trees EXCEPT ![call[c].tree][call[c].key] = Some(ToVecList(list))]

\* C23: while no two callers are at work on one key at one time, an append
\* that returns Ok leaves at its key the list stored there at that moment
\* with its value added at the end, a remove_item that returns Ok the list
\* stored there at that moment without the first element equal to its value
\* (nothing, where nothing is stored), and each leaves every other key as it
\* is; a call that returns an error changes nothing.  So every key ends with
\* its operations applied one after the other in the order they were issued,
\* whatever the callers did to other keys in between, and no append that
\* returned Ok is lost.
C23_UpdatesOfOtherKeysAreKept ==
    [][\A c \in Callers :
        /\ (pc[c] = "append_insert" /\ pc'[c] = "idle")
           => IF result'[c].status = "Ok"
              THEN StoresAt(c, Append(ListAt(c), call[c].value))
              ELSE trees' = trees
        /\ (pc[c] = "remove_item_insert" /\ pc'[c] = "idle")
           => IF result'[c].status = "Ok"
              THEN StoredAt(c).present /\ StoresAt(c, WithoutFirst(ListAt(c), call[c].value))
              ELSE trees' = trees
        /\ (pc[c] \in {"append_get", "remove_item_get"} /\ pc'[c] # pc[c])
           => /\ trees' = trees
              /\ result'[c].status = "Ok" => ~StoredAt(c).present
        /\ (pc[c] = "idle" /\ left' # left) => trees' = trees
      ]_vars

\* append of 2 to key k1 of the default tree by c1 and append of 1 to key k1
\* of t1 by c2, each begun before the other ended, both returned Ok: the
\* lists are [1, 2] and [2, 1]
C23_Witness ==
    /\ DoneOk("c1", "append")
    /\ DoneOk("c2", "append")
    /\ ~solo["c1"]
    /\ ~solo["c2"]
    /\ trees[DefaultTree]["k1"] = Some(ToVecList(<<EntityOne, EntityTwo>>))
    /\ trees["t1"]["k1"] = Some(ToVecList(<<EntityTwo, EntityOne>>))

(***************************************************************************)
(* append and remove_item of callers that meet on one key, stated for      *)
(* RaceSpec                                                                *)
(***************************************************************************)
\* the list c's get returned
ListGot(c) == IF got[c].present THEN FromSliceList(got[c].bytes).val ELSE <<>>

\* C24: remove_item whose get returned a list always goes on to its insert,
\* match or no match, and the insert, like that of append, stores the list
\* made from what the get returned, whatever the key holds by then: with no
\* element equal to the value, the very list it read.  So an element another
\* caller appended between the get and the insert is gone though both calls
\* return Ok (the witness), and an append whose get came before the insert
\* of a remove_item puts the removed element back.
C24_RemoveItemWritesBackWhatItRead ==
    [][\A c \in Callers :
        /\ (/\ pc[c] = "remove_item_get"
            /\ pc'[c] # pc[c]
            /\ result'[c] # SledError
            /\ StoredAt(c).present
            /\ FromSliceList(StoredAt(c).bytes).ok)
           => (pc'[c] = "remove_item_insert" /\ got'[c] = StoredAt(c))
        /\ (pc[c] = "remove_item_insert" /\ pc'[c] = "idle" /\ result'[c].status = "Ok")
           => /\ StoresAt(c, WithoutFirst(ListGot(c), call[c].value))
              /\ NoMatch(c) => StoresAt(c, ListGot(c))
        /\ (pc[c] = "append_insert" /\ pc'[c] = "idle" /\ result'[c].status = "Ok")
           => StoresAt(c, Append(ListGot(c), call[c].value))
      ]_vars

\* on the list [1] of key k1 of the default tree, remove_item of c1 for a value
\* not in it and append of 2 by c2 both read [1] and both returned Ok; the
\* key holds [1]: the 2 is not in the list
C24_Witness ==
    /\ DoneOk("c1", "remove_item")
    /\ DoneOk("c2", "append")
    /\ call["c1"] = [op |-> "remove_item", tree |-> DefaultTree, key |-> "k1",
                     value |-> EntityOneSpaced]
    /\ call["c2"] = [op |-> "append", tree |-> DefaultTree, key |-> "k1",
                     value |-> EntityTwo]
    /\ got["c1"] = Some(ToVecList(<<EntityOne>>))
    /\ got["c2"] = Some(ToVecList(<<EntityOne>>))
    /\ trees[DefaultTree]["k1"] = Some(ToVecList(<<EntityOne>>))

====
